---------------------------- MODULE Spec2Model ----------------------------
(***************************************************************************)
(* Batched assembly-step generation with resilient JSON extraction         *)
(* (src/utils.py, class GeminiAPI).                                        *)
(*                                                                         *)
(* A text is a sequence of symbols.  The structural characters of JSON and *)
(* of the regular expressions of the code are symbols of their own:        *)
(*   "[" "]" "{" "}" "," ":" "q" (the double quote) "bs" (the backslash)   *)
(*   " " (white space)  "0".."9" (digits)                                  *)
(*   "fence" (a code-fence marker: three backticks).                       *)
(* Every other symbol is a word: a maximal run of characters that are none *)
(* of the above ("notes", "title", "json", "x", ...).                      *)
(***************************************************************************)
EXTENDS Integers, Sequences, FiniteSets, TLC

Q == "q"
BS == "bs"
WS == " "
FENCE == "fence"
Digits == {"0", "1", "2", "3", "4", "5", "6", "7", "8", "9"}

(***************************************************************************)
(* Python values.  Every value is a record [t, v] whose v is a sequence:   *)
(*   none  <<>>            None                                            *)
(*   int   <<n>>           an int                                          *)
(*   str   symbols         a str                                           *)
(*   arr   values          a list                                          *)
(*   obj   [k, val] pairs  a dict, in insertion order                      *)
(***************************************************************************)
NoneVal == [t |-> "none", v |-> <<>>]
IntVal(n) == [t |-> "int", v |-> <<n>>]
StrVal(cs) == [t |-> "str", v |-> cs]
ArrVal(xs) == [t |-> "arr", v |-> xs]
ObjVal(ms) == [t |-> "obj", v |-> ms]

\* The outcome of a scan that failed (json.JSONDecodeError).
Fail == [ok |-> FALSE, end |-> 0, val |-> NoneVal]
Ok(e, x) == [ok |-> TRUE, end |-> e, val |-> x]

RECURSIVE SkipWs(_, _)
\* json.decoder WHITESPACE.match(s, i).end(): the first index >= i that
\* holds no white space.
SkipWs(s, i) ==
    IF i <= Len(s) /\ s[i] = WS THEN SkipWs(s, i + 1) ELSE i

RECURSIVE StrBody(_, _, _)
\* json.decoder.py_scanstring from the index after the opening quote:
\* an escaped quote or backslash is decoded, any other escape is invalid.
StrBody(s, j, acc) ==
    IF j > Len(s) THEN Fail
    ELSE IF s[j] = Q THEN Ok(j + 1, StrVal(acc))
    ELSE IF s[j] = BS
         THEN IF j + 1 <= Len(s) /\ s[j + 1] \in {Q, BS}
              THEN StrBody(s, j + 2, Append(acc, s[j + 1]))
              ELSE Fail
    ELSE StrBody(s, j + 1, Append(acc, s[j]))

RECURSIVE DigitRun(_, _)
\* The end of the run of digits that starts at i.
DigitRun(s, i) ==
    IF i <= Len(s) /\ s[i] \in Digits THEN DigitRun(s, i + 1) ELSE i

DigitSyms == <<"0", "1", "2", "3", "4", "5", "6", "7", "8", "9">>

\* The value of one digit.
DigitValue(c) == (CHOOSE n \in 1..10 : DigitSyms[n] = c) - 1

RECURSIVE ToInt(_)
\* int(ds) of a non-empty run of digits.
ToInt(ds) ==
    IF Len(ds) = 1 THEN DigitValue(ds[1])
    ELSE 10 * ToInt(SubSeq(ds, 1, Len(ds) - 1)) + DigitValue(ds[Len(ds)])

\* json.scanner NUMBER_RE at i: 0, or a non-zero digit and more digits
\* (the texts of the model hold no sign, fraction or exponent).
ScanNumber(s, i) ==
    LET e == IF s[i] = "0" THEN i + 1 ELSE DigitRun(s, i)
    IN  Ok(e, IntVal(ToInt(SubSeq(s, i, e - 1))))

RECURSIVE DictSet(_, _, _)
\* dict[k] = x: a key already present keeps its place and takes the value.
DictSet(ms, k, x) ==
    IF ms = <<>> THEN <<[k |-> k, val |-> x]>>
    ELSE IF Head(ms).k = k THEN <<[k |-> k, val |-> x]>> \o Tail(ms)
    ELSE <<Head(ms)>> \o DictSet(Tail(ms), k, x)

RECURSIVE ScanValue(_, _)
RECURSIVE ArrayElems(_, _, _)
RECURSIVE ObjectMembers(_, _, _)

\* json.decoder.JSONArray after the start of the first element.
ArrayElems(s, j, acc) ==
    LET x == ScanValue(s, j)
        k == SkipWs(s, x.end)
    IN  IF ~x.ok \/ k > Len(s) THEN Fail
        ELSE IF s[k] = "]" THEN Ok(k + 1, ArrVal(Append(acc, x.val)))
        ELSE IF s[k] = "," THEN ArrayElems(s, SkipWs(s, k + 1), Append(acc, x.val))
        ELSE Fail

\* json.decoder.JSONObject at the opening quote of a key.
ObjectMembers(s, j, acc) ==
    IF j > Len(s) \/ s[j] # Q THEN Fail
    ELSE LET key == StrBody(s, j + 1, <<>>)
             k == SkipWs(s, key.end)
         IN  IF ~key.ok \/ k > Len(s) \/ s[k] # ":" THEN Fail
             ELSE LET x == ScanValue(s, SkipWs(s, k + 1))
                      m == SkipWs(s, x.end)
                      acc2 == DictSet(acc, key.val.v, x.val)
                  IN  IF ~x.ok \/ m > Len(s) THEN Fail
                      ELSE IF s[m] = "}" THEN Ok(m + 1, ObjVal(acc2))
                      ELSE IF s[m] = "," THEN ObjectMembers(s, SkipWs(s, m + 1), acc2)
                      ELSE Fail

\* json.scanner.py_make_scanner._scan_once at index i.
ScanValue(s, i) ==
    IF i > Len(s) THEN Fail
    ELSE IF s[i] = Q THEN StrBody(s, i + 1, <<>>)
    ELSE IF s[i] = "{"
         THEN LET j == SkipWs(s, i + 1)
              IN  IF j <= Len(s) /\ s[j] = "}" THEN Ok(j + 1, ObjVal(<<>>))
                  ELSE ObjectMembers(s, j, <<>>)
    ELSE IF s[i] = "["
         THEN LET j == SkipWs(s, i + 1)
              IN  IF j <= Len(s) /\ s[j] = "]" THEN Ok(j + 1, ArrVal(<<>>))
                  ELSE ArrayElems(s, j, <<>>)
    ELSE IF s[i] \in Digits THEN ScanNumber(s, i)
    ELSE Fail

\* json.loads(s): one value, white space around it, nothing after it.
\* ok = FALSE stands for json.JSONDecodeError.
JsonLoads(s) ==
    LET x == ScanValue(s, SkipWs(s, 1))
    IN  IF x.ok /\ SkipWs(s, x.end) = Len(s) + 1 THEN x ELSE Fail

(***************************************************************************)
(* The regular expressions and string methods of _parse_json_safely.       *)
(***************************************************************************)

\* The least index >= i of s that holds a symbol of S (Len(s) + 1 when
\* there is none).
NextOf(s, i, S) ==
    LET at == {j \in i..Len(s) : s[j] \in S}
    IN  IF at = {} THEN Len(s) + 1 ELSE CHOOSE j \in at : \A k \in at : j <= k

\* The start, not before i, of the run of white space that ends right
\* before index f.
WsRunStart(s, i, f) ==
    CHOOSE w \in i..f :
        /\ \A j \in w..(f - 1) : s[j] = WS
        /\ w = i \/ s[w - 1] # WS

RECURSIVE SubFence(_, _, _)
\* re.sub of the fence pattern (line 262) from index i on.  The pattern
\* matches only at a fence or at the white space right before one.  At a
\* fence the first alternative (fence, "json", white space) is tried before
\* the second (white space, fence); at white space only the second can
\* match, and it leaves a following "json" in place.  A match is dropped,
\* every other symbol is kept.
SubFence(s, i, acc) ==
    LET f == NextOf(s, i, {FENCE})
        w == WsRunStart(s, i, f)
    IN  IF f > Len(s) THEN acc \o SubSeq(s, i, Len(s))
        ELSE IF w = f /\ f + 1 <= Len(s) /\ s[f + 1] = "json"
             THEN SubFence(s, SkipWs(s, f + 2), acc \o SubSeq(s, i, f - 1))
        ELSE SubFence(s, f + 1, acc \o SubSeq(s, i, w - 1))

RECURSIVE RStripEnd(_, _)
\* The last index <= i that holds no white space (0 when there is none).
RStripEnd(s, i) ==
    IF i >= 1 /\ s[i] = WS THEN RStripEnd(s, i - 1) ELSE i

\* str.strip()
Strip(s) == SubSeq(s, SkipWs(s, 1), RStripEnd(s, Len(s)))

\* re.search of an opening bracket and everything after it (DOTALL): the
\* text from its first "[", or the text itself when it has none.
FromFirstBracket(s) ==
    LET b == NextOf(s, 1, {"["})
    IN  IF b > Len(s) THEN s ELSE SubSeq(s, b, Len(s))

\* Line 262 and lines 265-267: the text that every strategy works on.
Normalize(s) == FromFirstBracket(Strip(SubFence(s, 1, <<>>)))

RECURSIVE NextQuote(_, _)
\* The first index >= i that holds a quote (Len(s) + 1 when there is none).
NextQuote(s, i) ==
    IF i <= Len(s) /\ s[i] # Q THEN NextQuote(s, i + 1) ELSE i

\* The rest of the object pattern once "notes" in quotes is matched at p:
\* white space, colon, white space, a quote, anything but a quote, a quote,
\* white space, a closing brace.  The index after the brace, or 0.
NotesTail(s, p) ==
    LET k == SkipWs(s, p + 3)
        m == SkipWs(s, k + 1)
        n == NextQuote(s, m + 1)
        r == SkipWs(s, n + 1)
    IN  IF /\ k <= Len(s) /\ s[k] = ":"
           /\ m <= Len(s) /\ s[m] = Q
           /\ n <= Len(s)
           /\ r <= Len(s) /\ s[r] = "}"
        THEN r + 1 ELSE 0

\* The object pattern of line 280 matched at index i: an opening brace, a
\* greedy run without braces, "notes" in quotes and NotesTail.  The greedy
\* run gives the match with the right-most "notes".  The index after the
\* match, or 0 when the pattern does not match at i.
MatchObjAt(s, i) ==
    IF s[i] # "{" THEN 0
    ELSE LET cands == {p \in (i + 1)..(Len(s) - 2) :
                         /\ s[p] = Q /\ s[p + 1] = "notes" /\ s[p + 2] = Q
                         /\ \A j \in (i + 1)..(p - 1) : s[j] \notin {"{", "}"}
                         /\ NotesTail(s, p) # 0}
         IN  IF cands = {} THEN 0
             ELSE NotesTail(s, CHOOSE p \in cands : \A c \in cands : c <= p)

RECURSIVE FindAllObjects(_, _, _)
\* re.findall of the object pattern: the matches from left to right, each
\* search starting where the previous match ended.  A match starts at an
\* opening brace.
FindAllObjects(s, i, acc) ==
    LET b == NextOf(s, i, {"{"})
        e == MatchObjAt(s, b)
    IN  IF b > Len(s) THEN acc
        ELSE IF e # 0 THEN FindAllObjects(s, e, Append(acc, SubSeq(s, b, e - 1)))
        ELSE FindAllObjects(s, b + 1, acc)

\* str.rfind(sub), as the index of the first symbol of the last occurrence
\* of sub in s (sub occurs in s: it is one of the matches).
RFind(s, sub) ==
    CHOOSE i \in 1..Len(s) :
        /\ i + Len(sub) - 1 <= Len(s)
        /\ SubSeq(s, i, i + Len(sub) - 1) = sub
        /\ \A j \in (i + 1)..(Len(s) - Len(sub) + 1) :
               SubSeq(s, j, j + Len(sub) - 1) # sub

\* Lines 280-288: the matches of the object pattern in the normalized text.
LastComplete(cleaned) == FindAllObjects(cleaned, 1, <<>>)

\* Lines 284-288: the normalized text cut after the last occurrence of the
\* last match, closed with a bracket.
Fixed(cleaned) ==
    LET last_complete == LastComplete(cleaned)
        last_obj == last_complete[Len(last_complete)]
        last_pos == RFind(cleaned, last_obj) + Len(last_obj) - 1
    IN  Append(SubSeq(cleaned, 1, last_pos), "]")

\* Line 298: the closing suffixes of the fallback strategy, in order.
\* The suffixes with the first two in the other order.
SuffixesSwapped ==
    << <<"}", "]">>, <<"]">>, <<Q, "}", "]">>, <<Q, Q, "}", "]">>, <<Q, ":", Q, Q, "}", "]">> >>
Suffixes ==
    << <<"]">>, <<"}", "]">>, <<Q, "}", "]">>, <<Q, Q, "}", "]">>,
       <<Q, ":", Q, Q, "}", "]">> >>
RECURSIVE FirstSuffix(_, _)
\* Lines 298-304: the result of the first suffix, from the i-th on, that
\* makes the normalized text parse; Fail when none does.
FirstSuffix(cleaned, i) ==
    IF i > Len(Suffixes) THEN Fail
    ELSE LET x == JsonLoads(cleaned \o Suffixes[i])
         IN  IF x.ok THEN x ELSE FirstSuffix(cleaned, i + 1)

\* Lines 275-295: the primary repair; Fail when there is no match or the
\* repaired text does not parse.
PrimaryRepair(cleaned) ==
    IF LastComplete(cleaned) = <<>> THEN Fail ELSE JsonLoads(Fixed(cleaned))

\* _parse_json_safely(text), text a str value or None.
ParseJsonSafely(text) ==
    IF text.t = "none" THEN NoneVal
    ELSE LET cleaned == Normalize(text.v)
             direct == JsonLoads(cleaned)
             primary == PrimaryRepair(cleaned)
         IN  IF direct.ok THEN direct.val
             ELSE IF primary.ok THEN primary.val
             ELSE FirstSuffix(cleaned, 1).val

(***************************************************************************)
(* The Gemini client (generate_text) and what the service answers.         *)
(*                                                                         *)
(* An answer of the service to one request is a record                     *)
(*   kind        "timeout" (requests.exceptions.Timeout), "error" (any     *)
(*               other exception of the request: connection, HTTP status,  *)
(*               body that is no JSON) or "ok" (a JSON body)               *)
(*   has_candidates, candidates   the body has the key, and its list       *)
(* and a candidate is [has_content, has_parts, parts], parts a sequence of *)
(* [has_text, text].                                                       *)
(***************************************************************************)
Part(txt) == [has_text |-> TRUE, text |-> txt]
Candidate(ps) == [has_content |-> TRUE, has_parts |-> TRUE, parts |-> ps]
Body(cs) == [kind |-> "ok", has_candidates |-> TRUE, candidates |-> cs]
\* The body that carries txt as the only part of the only candidate.
Answer(txt) == Body(<<Candidate(<<Part(txt)>>)>>)
Timeout == [kind |-> "timeout", has_candidates |-> FALSE, candidates |-> <<>>]
HttpError == [kind |-> "error", has_candidates |-> FALSE, candidates |-> <<>>]

\* Line 95: the part whose text is returned; before it, the last part in
\* place of the first.
LastPart(parts) == parts[Len(parts)]
ReturnedPart(parts) == parts[1]

\* generate_text (lines 66-101): the text of the first part of the first
\* candidate, or None.  Every exception is caught (lines 96-101), also the
\* KeyError of a part without "text".
GenerateText(http) ==
    IF http.kind # "ok" THEN NoneVal
    ELSE IF ~http.has_candidates THEN NoneVal
    ELSE IF Len(http.candidates) = 0 THEN NoneVal
    ELSE LET candidate == http.candidates[1]
         IN  IF ~candidate.has_content THEN NoneVal
             ELSE IF ~candidate.has_parts THEN NoneVal
             ELSE IF Len(candidate.parts) = 0 THEN NoneVal
             ELSE IF ~ReturnedPart(candidate.parts).has_text THEN NoneVal
             ELSE StrVal(ReturnedPart(candidate.parts).text)

(***************************************************************************)
(* Python truth and iteration, as generate_assembly_steps uses them.       *)
(***************************************************************************)
\* bool(x), the test of lines 184 and 207.
Truthy(x) ==
    IF x.t = "none" THEN FALSE
    ELSE IF x.t = "int" THEN x.v # <<0>>
    ELSE x.v # <<>>

\* Whether list.extend(x) accepts x: an int is not iterable (TypeError).
Iterable(x) == x.t \in {"arr", "obj", "str"}

\* The elements list.extend(x) appends: the elements of a list, the keys
\* of a dict, the pieces of a str.
Elements(x) ==
    IF x.t = "arr" THEN x.v
    ELSE IF x.t = "obj" THEN [i \in 1..Len(x.v) |-> StrVal(x.v[i].k)]
    ELSE [i \in 1..Len(x.v) |-> StrVal(<<x.v[i]>>)]

(***************************************************************************)
(* _get_total_steps and _generate_steps_batch.                             *)
(***************************************************************************)
\* Lines 205-212: the int of the first run of digits of the answer, None
\* when the client returned nothing or the text has no digit.
\* The count with the pattern of line 209 taking one digit only.
GetTotalStepsOneDigit(http) ==
    LET response == GenerateText(http)
        d == NextOf(response.v, 1, Digits)
    IN  IF ~Truthy(response) \/ d > Len(response.v) THEN NoneVal
        ELSE IntVal(DigitValue(response.v[d]))
GetTotalSteps(http) ==
    LET response == GenerateText(http)
        d == NextOf(response.v, 1, Digits)
    IN  IF ~Truthy(response) \/ d > Len(response.v) THEN NoneVal
        ELSE IntVal(ToInt(SubSeq(response.v, d, DigitRun(response.v, d) - 1)))

\* Lines 239-250: the answer of the client through _parse_json_safely.
GenerateStepsBatch(http) == ParseJsonSafely(GenerateText(http))

\* Line 171.
batch_size == 4
\* Lines 163-165: the default when the count is None or less than 1.
DefaultTotal == 13

\* Lines 163-165: the total used for the windows.
\* The fallback without the test of line 163 for a count below 1.
EffectiveTotalNoneOnly(count) == IF count.t = "none" THEN DefaultTotal ELSE count.v[1]
EffectiveTotal(count) ==
    IF count.t = "none" \/ count.v[1] < 1 THEN DefaultTotal ELSE count.v[1]

\* Line 175: the last step of the window that starts at start.
\* The window end without the min of line 175.
WindowEndUnclamped(start, total) == start + batch_size - 1
WindowEnd(start, total) ==
    IF start + batch_size - 1 < total THEN start + batch_size - 1 ELSE total

(***************************************************************************)
(* What the generative model writes.  A reply is described by              *)
(*   pre    the symbols before the array (commentary, an opening fence),   *)
(*          or the whole text when the reply holds no array                *)
(*   arr    whether the reply holds an array                               *)
(*   objs   the complete step objects of the array, each [n, notes]: its   *)
(*          step number and the kind of its notes                          *)
(*   close  how the array ends: "closed" (a bracket), "fence" (a bracket   *)
(*          and a closing fence), "trail" (a bracket and commentary),      *)
(*          "cut" (right after the last object) or "frag" (a separator and *)
(*          the first cut symbols of one more object)                      *)
(* Render gives its text.                                                  *)
(***************************************************************************)
MaxObjs == 2
MaxTotal == 9
MaxOdd == 2

NoteKinds == {"plain", "quoted", "fenced"}

\* The notes of a step as written (an escaped quote is two symbols) ...
NotesText(kind) ==
    IF kind = "plain" THEN <<"x">>
    ELSE IF kind = "quoted" THEN <<"x", BS, Q, "x", BS, Q>>
    ELSE <<"x", WS, FENCE>>

\* ... and as the str they stand for.
NotesValue(kind) ==
    IF kind = "plain" THEN <<"x">>
    ELSE IF kind = "quoted" THEN <<"x", Q, "x", Q>>
    ELSE <<"x", WS, FENCE>>

\* The decimal digits of n, 0 <= n < 100.
DigitsOf(n) ==
    IF n < 10 THEN <<DigitSyms[n + 1]>>
    ELSE <<DigitSyms[(n \div 10) + 1], DigitSyms[(n % 10) + 1]>>

\* One step object as the prompt asks for it (lines 234-237).
StepText(o) ==
    <<"{", Q, "step_number", Q, ":">> \o DigitsOf(o.n)
    \o <<",", Q, "title", Q, ":", Q, "x", Q,
         ",", Q, "description", Q, ":", Q, "x", Q,
         ",", Q, "notes", Q, ":", Q>> \o NotesText(o.notes) \o <<Q, "}">>

\* The dict that StepText(o) stands for.
StepValue(o) ==
    ObjVal(<< [k |-> <<"step_number">>, val |-> IntVal(o.n)],
              [k |-> <<"title">>, val |-> StrVal(<<"x">>)],
              [k |-> <<"description">>, val |-> StrVal(<<"x">>)],
              [k |-> <<"notes">>, val |-> StrVal(NotesValue(o.notes))] >>)

\* The list that the complete objects of a reply stand for.
StepValues(objs) == ArrVal([i \in 1..Len(objs) |-> StepValue(objs[i])])

RECURSIVE JoinSteps(_)
\* The objects with a comma between them.
JoinSteps(objs) ==
    IF objs = <<>> THEN <<>>
    ELSE IF Len(objs) = 1 THEN StepText(objs[1])
    ELSE StepText(objs[1]) \o <<",">> \o JoinSteps(Tail(objs))

\* Where a truncated reply may stop inside the next object: after the
\* brace, inside and after the first key, after its value, inside and
\* after the title, inside the notes, before the closing brace.
FragmentCuts == {0, 1, 3, 4, 6, 13, 14, 29, 30}

\* The step number that follows the objects (1 for none).
NextNumber(objs) == IF objs = <<>> THEN 1 ELSE objs[Len(objs)].n + 1

\* The end of the array of reply r.
TailText(r) ==
    IF r.close = "closed" THEN <<"]">>
    ELSE IF r.close = "fence" THEN <<"]", WS, FENCE>>
    ELSE IF r.close = "trail" THEN <<"]", WS, "x">>
    ELSE IF r.close = "cut" THEN <<>>
    ELSE (IF r.objs = <<>> THEN <<>> ELSE <<",">>)
         \o SubSeq(StepText([n |-> NextNumber(r.objs), notes |-> "plain"]), 1, r.cut)

Render(r) ==
    IF r.arr THEN r.pre \o <<"[">> \o JoinSteps(r.objs) \o TailText(r)
    ELSE r.pre

Reply(pre, objs, close, cut) ==
    [pre |-> pre, arr |-> TRUE, objs |-> objs, close |-> close, cut |-> cut]
RawReply(txt) ==
    [pre |-> txt, arr |-> FALSE, objs |-> <<>>, close |-> "closed", cut |-> 0]

\* Steps first..last, all with plain notes.
PlainSteps(first, last) ==
    [i \in 1..(last - first + 1) |-> [n |-> first + i - 1, notes |-> "plain"]]

(***************************************************************************)
(* State.                                                                  *)
(*   pc           where the run is                                         *)
(*   count        what _get_total_steps returned (line 161)                *)
(*   total_steps  the total used for the windows (0: not yet set)          *)
(*   start        the loop variable of line 174                            *)
(*   all_steps    the accumulated list (line 170)                          *)
(*   batch_steps  what _generate_steps_batch returned last (line 179)      *)
(*   batches      the windows requested so far, each with what its batch   *)
(*                returned: [start, end, steps]                            *)
(*   calls        the requests the run has sent to the client, in order:   *)
(*                "count", or the window of a batch                        *)
(*   reply, http  the text the model wrote and the answer of the service   *)
(*                to the request of one _generate_steps_batch call         *)
(*   response     what generate_text returned to that call (line 239)      *)
(*   cleaned      the normalized text of _parse_json_safely                *)
(*   result       what _parse_json_safely returned                         *)
(*   attempts     the steps of _parse_json_safely taken so far             *)
(*   suffix_i     the index of the next suffix of line 298                 *)
(*   collection   the documents stored in the MongoDB collection           *)
(*   before       the documents stored when upload_to_mongodb was called   *)
(*   env          what upload_to_mongodb finds: the connection string of   *)
(*                the config, the JSON file, the answer of the user        *)
(*   data         what json.load returned (line 90)                        *)
(*   returned     what upload_to_mongodb returned                          *)
(***************************************************************************)
VARIABLES pc, count, total_steps, start, all_steps, batch_steps, batches, calls,
          reply, http, response, cleaned, result, attempts, suffix_i,
          collection, before, env, data, returned

vars == <<pc, count, total_steps, start, all_steps, batch_steps, batches, calls,
          reply, http, response, cleaned, result, attempts, suffix_i,
          collection, before, env, data, returned>>
runVars == <<count, total_steps, start, all_steps, batches, calls>>
callVars == <<reply, http, response, cleaned, result, attempts, suffix_i>>
uploadVars == <<collection, before, env, data, returned>>

\* No upload is under way.
NoUpload ==
    /\ collection = <<>>
    /\ before = <<>>
    /\ env = [connection_string |-> "real", file |-> "missing", docs |-> <<>>, answer |-> ""]
    /\ data = <<>>
    /\ returned = "nothing"

(***************************************************************************)
(* Spec: one run of generate_assembly_steps.                               *)
(***************************************************************************)
\* The answers to the request of _get_total_steps: a failure, a bare
\* number, a number inside a sentence, a text without digits, no text.
CountAnswers ==
    {Timeout, HttpError}
    \cup {Answer(DigitsOf(n)) : n \in 0..MaxTotal}
    \cup {Answer(<<"x", WS>> \o DigitsOf(MaxTotal) \o <<WS, "x">>),
          Answer(<<"x">>), Answer(<<>>)}

\* What the model writes when it does as asked: steps first..last in one
\* array, bare or inside a fence.
AsAsked(first, last) ==
    {Reply(<<>>, PlainSteps(first, last), "closed", 0),
     Reply(<<FENCE, "json", WS>>, PlainSteps(first, last), "fence", 0)}

\* What it may write instead: one step too many, an empty array, the first
\* one or two steps and a fragment, a first step with quoted notes and a
\* fragment, one object without an array, a bare number, prose.
Otherwise(first, last) ==
    {Reply(<<>>, PlainSteps(first, last + 1), "closed", 0),
     Reply(<<>>, <<>>, "closed", 0),
     Reply(<<>>, PlainSteps(first, first), "frag", 14),
     Reply(<<>>, PlainSteps(first, first + 1), "frag", 14),
     Reply(<<>>, <<[n |-> first, notes |-> "quoted"]>>, "frag", 14),
     RawReply(StepText([n |-> first, notes |-> "plain"])),
     RawReply(DigitsOf(first)),
     RawReply(<<"x">>)}

\* The answers to the request of one batch.
GoodAnswers(first, last) == {Answer(Render(r)) : r \in AsAsked(first, last)}
OddAnswers(first, last) ==
    {Timeout, HttpError, Body(<<>>)}
    \cup {Answer(Render(r)) : r \in Otherwise(first, last)}

\* The batches so far that returned something other than their steps.
OddBatches(log) ==
    {i \in 1..Len(log) : log[i].steps # StepValues(PlainSteps(log[i].start, log[i].end))}

NoCall ==
    /\ reply = RawReply(<<>>)
    /\ http = Timeout
    /\ response = NoneVal
    /\ cleaned = <<>>
    /\ result = NoneVal
    /\ attempts = <<>>
    /\ suffix_i = 0
    /\ NoUpload

Init ==
    /\ pc = "count"
    /\ count = NoneVal
    /\ total_steps = 0
    /\ start = 0
    /\ all_steps = <<>>
    /\ batch_steps = NoneVal
    /\ batches = <<>>
    /\ calls = <<>>
    /\ NoCall

\* Lines 159-167: the count, the default, and the start of the loop.
CountSteps ==
    /\ pc = "count"
    /\ \E h \in CountAnswers :
          /\ count' = GetTotalSteps(h)
          /\ total_steps' = EffectiveTotal(GetTotalSteps(h))
    /\ start' = 1
    /\ calls' = Append(calls, <<"count">>)
    /\ pc' = "loop"
    /\ UNCHANGED <<all_steps, batch_steps, batches>>
    /\ UNCHANGED callVars
    /\ UNCHANGED uploadVars

\* Lines 174-190: one turn of the loop.  extend raises TypeError for a
\* truthy value that is not iterable, and nothing catches it.
Batch ==
    /\ pc = "loop"
    /\ start <= total_steps
    /\ LET end == WindowEnd(start, total_steps)
       IN  \E h \in GoodAnswers(start, end) \cup OddAnswers(start, end) :
              /\ h \in GoodAnswers(start, end) \/ Cardinality(OddBatches(batches)) < MaxOdd
              /\ calls' = Append(calls, <<start, end>>)
              /\ \E steps \in {GenerateStepsBatch(h)} :
                    /\ batch_steps' = steps
                    /\ batches' = Append(batches, [start |-> start, end |-> end, steps |-> steps])
                    /\ IF Truthy(steps) /\ ~Iterable(steps)
                       THEN /\ pc' = "raised"
                            /\ UNCHANGED <<all_steps, start>>
                       ELSE /\ all_steps' = IF Truthy(steps) THEN all_steps \o Elements(steps)
                                            ELSE all_steps
                            /\ start' = start + batch_size
                            /\ pc' = "loop"
    /\ UNCHANGED <<count, total_steps>>
    /\ UNCHANGED callVars
    /\ UNCHANGED uploadVars

\* Lines 192-193: the loop is over, the list is returned.
Return ==
    /\ pc = "loop"
    /\ start > total_steps
    /\ pc' = "done"
    /\ UNCHANGED <<count, total_steps, start, all_steps, batch_steps, batches, calls>>
    /\ UNCHANGED callVars
    /\ UNCHANGED uploadVars

Next == CountSteps \/ Batch \/ Return

Spec == Init /\ [][Next]_vars

(***************************************************************************)
(* SpecBatch: one call of _generate_steps_batch, step by step.             *)
(***************************************************************************)
\* What may stand before the array: nothing, commentary, an opening fence,
\* commentary and a fence, commentary with brackets of its own.
Prefixes ==
    {<<>>,
     <<"x", WS>>,
     <<FENCE, "json", WS>>,
     <<"x", WS, FENCE, "json", WS>>,
     <<"x", "[", "x", "]", WS>>}

\* The step objects of a reply: numbered from 1, at most MaxObjs of them.
RECURSIVE ObjSeqs(_)
ObjSeqs(n) ==
    IF n = 0 THEN {<<>>}
    ELSE ObjSeqs(n - 1)
         \cup {Append(os, [n |-> n, notes |-> kd]) : os \in {o \in ObjSeqs(n - 1) : Len(o) = n - 1},
                                                     kd \in NoteKinds}

Closes == {"closed", "fence", "trail", "cut"}

ArrayReplies ==
    {Reply(pre, os, cl, 0) : pre \in Prefixes, os \in ObjSeqs(MaxObjs), cl \in Closes}
    \cup {Reply(pre, os, "frag", c) : pre \in Prefixes, os \in ObjSeqs(MaxObjs), c \in FragmentCuts}

\* Texts without an array: nothing, blanks, prose, numbers, a string, one
\* object, an empty object.
RawReplies ==
    {RawReply(t) : t \in {<<>>, <<WS>>, <<"x">>, <<"1">>, <<"0">>, <<"1", "2">>,
                          <<Q, "x", Q>>, <<"{", "}">>,
                          StepText([n |-> 1, notes |-> "plain"]),
                          <<FENCE, "json", WS>> \o StepText([n |-> 1, notes |-> "plain"]) \o <<WS, FENCE>>}}

NoCandidates == [kind |-> "ok", has_candidates |-> FALSE, candidates |-> <<>>]
NoContent == [has_content |-> FALSE, has_parts |-> FALSE, parts |-> <<>>]
NoParts == [has_content |-> TRUE, has_parts |-> FALSE, parts |-> <<>>]
NoText == [has_text |-> FALSE, text |-> <<>>]

\* The answers of the service that are not one candidate with one part.
OddEnvelopes(txt) ==
    {Timeout, HttpError, NoCandidates, Body(<<>>),
     Body(<<NoContent>>), Body(<<NoParts>>), Body(<<Candidate(<<>>)>>),
     Body(<<Candidate(<<NoText>>)>>),
     Body(<<NoContent, Candidate(<<Part(txt)>>)>>),
     Body(<<Candidate(<<Part(txt), Part(<<"x">>)>>)>>),
     Body(<<Candidate(<<Part(txt)>>), Candidate(<<Part(<<"x">>)>>)>>)}

InitBatch ==
    /\ pc = "request"
    /\ count = NoneVal
    /\ total_steps = 0
    /\ start = 0
    /\ all_steps = <<>>
    /\ batch_steps = NoneVal
    /\ batches = <<>>
    /\ calls = <<>>
    /\ \/ /\ reply \in ArrayReplies \cup RawReplies
          /\ http = Answer(Render(reply))
       \/ /\ reply \in RawReplies
          /\ http \in OddEnvelopes(Render(reply))
    /\ response = NoneVal
    /\ cleaned = <<>>
    /\ result = NoneVal
    /\ attempts = <<>>
    /\ suffix_i = 0
    /\ NoUpload

\* Line 239: the request is sent and generate_text returns.
Request ==
    /\ pc = "request"
    /\ response' = GenerateText(http)
    /\ pc' = "parse"
    /\ UNCHANGED <<reply, http, cleaned, result, attempts, suffix_i, batch_steps>>
    /\ UNCHANGED runVars
    /\ UNCHANGED uploadVars

\* Line 255: the test of the input guard; before it, a guard that lets
\* everything through.
GuardSkipped(text) == FALSE
IsNone(text) == text.t = "none"

\* Lines 255-257: the input guard.
InputGuard ==
    /\ pc = "parse"
    /\ IsNone(response)
    /\ result' = NoneVal
    /\ pc' = "return"
    /\ UNCHANGED <<reply, http, response, cleaned, attempts, suffix_i, batch_steps>>
    /\ UNCHANGED runVars
    /\ UNCHANGED uploadVars

\* Lines 262-267: fences removed, blanks stripped, text before the first
\* opening bracket dropped.
NormalizeText ==
    /\ pc = "parse"
    /\ ~IsNone(response)
    /\ cleaned' = Normalize(response.v)
    /\ attempts' = Append(attempts, "normalize")
    /\ pc' = "direct"
    /\ UNCHANGED <<reply, http, response, result, suffix_i, batch_steps>>
    /\ UNCHANGED runVars
    /\ UNCHANGED uploadVars

\* Lines 270-273: the direct parse.
DirectParse ==
    /\ pc = "direct"
    /\ attempts' = Append(attempts, "direct")
    /\ \E x \in {JsonLoads(cleaned)} :
          IF x.ok THEN result' = x.val /\ pc' = "return"
          ELSE pc' = "primary" /\ UNCHANGED result
    /\ UNCHANGED <<reply, http, response, cleaned, suffix_i, batch_steps>>
    /\ UNCHANGED runVars
    /\ UNCHANGED uploadVars

\* Lines 280-295: the cut after the last complete object.
PrimaryStep ==
    /\ pc = "primary"
    /\ attempts' = Append(attempts, "primary")
    /\ \E x \in {PrimaryRepair(cleaned)} :
          IF x.ok THEN result' = x.val /\ pc' = "return" /\ UNCHANGED suffix_i
          ELSE pc' = "suffix" /\ suffix_i' = 1 /\ UNCHANGED result
    /\ UNCHANGED <<reply, http, response, cleaned, batch_steps>>
    /\ UNCHANGED runVars
    /\ UNCHANGED uploadVars

\* Lines 298-304: one turn of the loop over the suffixes.
SuffixStep ==
    /\ pc = "suffix"
    /\ suffix_i <= Len(Suffixes)
    /\ attempts' = Append(attempts, "suffix")
    /\ \E x \in {JsonLoads(cleaned \o Suffixes[suffix_i])} :
          IF x.ok THEN result' = x.val /\ pc' = "return" /\ UNCHANGED suffix_i
          ELSE suffix_i' = suffix_i + 1 /\ UNCHANGED <<pc, result>>
    /\ UNCHANGED <<reply, http, response, cleaned, batch_steps>>
    /\ UNCHANGED runVars
    /\ UNCHANGED uploadVars

\* Line 307: what is returned when nothing parsed; before it, an empty
\* list in place of None.
EmptyList == ArrVal(<<>>)
TotalFailureResult == NoneVal

\* Lines 306-307: no suffix is left.
TotalFailure ==
    /\ pc = "suffix"
    /\ suffix_i > Len(Suffixes)
    /\ result' = TotalFailureResult
    /\ pc' = "return"
    /\ UNCHANGED <<reply, http, response, cleaned, attempts, suffix_i, batch_steps>>
    /\ UNCHANGED runVars
    /\ UNCHANGED uploadVars

\* Line 250: _generate_steps_batch returns what the parser returned.
BatchReturn ==
    /\ pc = "return"
    /\ batch_steps' = result
    /\ pc' = "returned"
    /\ UNCHANGED <<reply, http, response, cleaned, result, attempts, suffix_i>>
    /\ UNCHANGED runVars
    /\ UNCHANGED uploadVars

NextBatch ==
    \/ Request
    \/ InputGuard
    \/ NormalizeText
    \/ DirectParse
    \/ PrimaryStep
    \/ SuffixStep
    \/ TotalFailure
    \/ BatchReturn

SpecBatch == InitBatch /\ [][NextBatch]_vars

\* The steps of SpecBatch compute what the operator of Spec computes.
StepsAgree == pc = "returned" => batch_steps = GenerateStepsBatch(http)

(***************************************************************************)
(* Properties of a run of generate_assembly_steps (Spec).                  *)
(***************************************************************************)
Window(i) == <<batches[i].start, batches[i].end>>

\* C1: the windows requested are in ascending order and contiguous (the
\* first starts at 1, each next one starts at the previous end + 1), each
\* holds between 1 and 4 step numbers, only the window that ends at
\* total_steps may hold fewer than 4, none goes past total_steps, and when
\* the list is returned the windows cover 1..total_steps exactly.
C1_WindowPartition ==
    /\ \A i \in 1..Len(batches) :
          /\ batches[i].start = IF i = 1 THEN 1 ELSE batches[i - 1].end + 1
          /\ batches[i].end - batches[i].start + 1 \in 1..4
          /\ batches[i].end <= total_steps
          /\ batches[i].end - batches[i].start + 1 < 4 => batches[i].end = total_steps
    /\ pc = "done" =>
          /\ total_steps >= 1
          /\ Len(batches) >= 1
          /\ batches[Len(batches)].end = total_steps

\* A run with the default total has asked for (1,4), (5,8), (9,12), (13,13).
C1_Witness ==
    /\ pc = "done"
    /\ total_steps = 13
    /\ [i \in 1..Len(batches) |-> Window(i)] = <<<<1, 4>>, <<5, 8>>, <<9, 12>>, <<13, 13>>>>

\* The step lists of the batches, one after the other; a batch that
\* returned none or anything that is no list gives no step.
RECURSIVE StepLists(_)
StepLists(log) ==
    IF log = <<>> THEN <<>>
    ELSE StepLists(SubSeq(log, 1, Len(log) - 1))
         \o (IF log[Len(log)].steps.t = "arr" THEN log[Len(log)].steps.v ELSE <<>>)

\* C2: the accumulated list, and so the list returned, is exactly the
\* concatenation, in window order, of the step lists the batches returned:
\* nothing else enters it, and a batch that returned none leaves it as it
\* was.
C2_ExactConcatenation == all_steps = StepLists(batches)

\* C3: whatever the batches return, the run does not raise, and it returns
\* only after the window that ends at total_steps has been requested.
C3_NeverRaises ==
    /\ pc # "raised"
    /\ pc = "done" => Len(batches) >= 1 /\ batches[Len(batches)].end = total_steps

\* C4: once the count has been taken, the total used for the windows is 13
\* if the count is none or an integer below 1, the count itself if it is an
\* integer of at least 1, and so always at least 1.
C4_FallbackTotal ==
    pc # "count" =>
        /\ count.t = "none" => total_steps = 13
        /\ count.t = "int" /\ count.v[1] < 1 => total_steps = 13
        /\ count.t = "int" /\ count.v[1] >= 1 => total_steps = count.v[1]
        /\ count.t \in {"none", "int"}
        /\ total_steps >= 1

\* The count was the integer 0 and the run went through the 13 by default.
C4_Witness ==
    /\ pc = "done"
    /\ count = IntVal(0)
    /\ total_steps = 13
    /\ Len(batches) = 4

(***************************************************************************)
(* Properties of one call of _generate_steps_batch (SpecBatch).            *)
(***************************************************************************)
\* The parser has returned, and it was given the text the model wrote.
ParsedReply == pc \in {"return", "returned"} /\ http = Answer(Render(reply))

\* C5: for a text made of "[", one or more complete step objects and an
\* incomplete object, the parser returns exactly the complete objects, in
\* order and without the fragment, and it gets them from the cut after the
\* last complete object: the direct parse failed, no suffix was tried.
C5_SalvageExact ==
    (/\ ParsedReply
     /\ reply.arr /\ reply.pre = <<>>
     /\ reply.objs # <<>>
     /\ reply.close = "frag" /\ reply.cut > 0)
    => /\ result = StepValues(reply.objs)
       /\ attempts = <<"normalize", "direct", "primary">>

\* The reply is a well-formed array of step objects: bare, after
\* commentary, inside a fence, or inside a fence after commentary.
WellFormedReply ==
    /\ reply.arr
    /\ \/ reply.pre \in {<<>>, <<"x", WS>>} /\ reply.close = "closed"
       \/ reply.pre \in {<<FENCE, "json", WS>>, <<"x", WS, FENCE, "json", WS>>}
          /\ reply.close = "fence"

\* C6: a well-formed array of step objects comes back unchanged, the same
\* steps in the same order with the same field values, from the direct
\* parse alone.
C6_RoundTrip ==
    ParsedReply /\ WellFormedReply
    => /\ result = StepValues(reply.objs)
       /\ attempts = <<"normalize", "direct">>

\* C7: whatever the text, the parser returns none or a list of objects,
\* never a number, a string or a single object.
C7_NoneOrList ==
    pc \in {"return", "returned"}
    => \/ result.t = "none"
       \/ /\ result.t = "arr"
          /\ \A i \in 1..Len(result.v) : result.v[i].t = "obj"

\* No strategy of the parser gets a value out of the text.
NothingParses(text) ==
    LET c == Normalize(text)
        m == LastComplete(c)
    IN  /\ ~JsonLoads(c).ok
        /\ m = <<>> \/ ~JsonLoads(Fixed(c)).ok
        /\ \A i \in 1..5 : ~JsonLoads(c \o Suffixes[i]).ok

\* C8: when the direct parse fails, the primary repair finds no complete
\* object or its text does not parse, and none of the five suffixes makes
\* the text parse, the parser returns none after having tried them all,
\* and _generate_steps_batch returns that none.
C8_TotalFailure ==
    (/\ pc \in {"return", "returned"}
     /\ response.t = "str"
     /\ NothingParses(response.v))
    => /\ result = NoneVal
       /\ attempts = <<"normalize", "direct", "primary",
                       "suffix", "suffix", "suffix", "suffix", "suffix">>
       /\ pc = "returned" => batch_steps = NoneVal

\* A text in which the primary repair found a complete object, to no
\* avail, has gone through every strategy and come back as none.
C8_Witness ==
    /\ pc = "returned"
    /\ response.t = "str"
    /\ LastComplete(cleaned) # <<>>
    /\ Len(attempts) = 8
    /\ batch_steps = NoneVal

\* C9: given none, the parser returns none at once: nothing is normalized,
\* nothing is parsed, no repair is tried.
C9_NullInput ==
    (pc \in {"return", "returned"} /\ response = NoneVal)
    => /\ result = NoneVal
       /\ attempts = <<>>
       /\ cleaned = <<>>

\* The request timed out and the call returned none without any attempt.
C9_Witness ==
    /\ pc = "returned"
    /\ http = Timeout
    /\ response = NoneVal
    /\ attempts = <<>>
    /\ batch_steps = NoneVal

\* C10: generate_text returns none on a timeout, on any other error, on a
\* body without candidates, with no candidate, with a first candidate
\* without content, with a content without parts or with no part; what it
\* returns otherwise is the text of the first part of the first candidate.
C10_GenerateText ==
    pc # "request" =>
        LET failed == \/ http.kind \in {"timeout", "error"}
                      \/ ~http.has_candidates
                      \/ http.candidates = <<>>
                      \/ ~http.candidates[1].has_content
                      \/ ~http.candidates[1].has_parts
                      \/ http.candidates[1].parts = <<>>
        IN  /\ failed => response = NoneVal
            /\ response # NoneVal =>
                  ~failed /\ response = StrVal(http.candidates[1].parts[1].text)
            /\ ~failed /\ http.candidates[1].parts[1].has_text => response # NoneVal

\* A body with two parts gave the text of the first one.
C10_Witness ==
    /\ pc = "returned"
    /\ http.kind = "ok"
    /\ Len(http.candidates) = 1
    /\ Len(http.candidates[1].parts) = 2
    /\ response = StrVal(<<"1">>)

(***************************************************************************)
(* SpecCount: one call of _get_total_steps.                                *)
(***************************************************************************)
MaxCountLen == 4
CountAlphabet == {"0", "1", "3", "x", WS}

\* Every text of at most n symbols of the alphabet.
RECURSIVE TextsUpTo(_)
TextsUpTo(n) ==
    IF n = 0 THEN {<<>>}
    ELSE TextsUpTo(n - 1)
         \cup {Append(t, c) : t \in {u \in TextsUpTo(n - 1) : Len(u) = n - 1},
                              c \in CountAlphabet}

InitCount ==
    /\ pc = "ask"
    /\ count = NoneVal
    /\ total_steps = 0
    /\ start = 0
    /\ all_steps = <<>>
    /\ batch_steps = NoneVal
    /\ batches = <<>>
    /\ calls = <<>>
    /\ reply = RawReply(<<>>)
    /\ \/ http \in {Answer(t) : t \in TextsUpTo(MaxCountLen)}
       \/ http \in OddEnvelopes(<<"1", "3">>)
    /\ response = NoneVal
    /\ cleaned = <<>>
    /\ result = NoneVal
    /\ attempts = <<>>
    /\ suffix_i = 0
    /\ NoUpload

\* Lines 205-212: the request is answered and the count is returned.
CountCall ==
    /\ pc = "ask"
    /\ response' = GenerateText(http)
    /\ count' = GetTotalSteps(http)
    /\ pc' = "counted"
    /\ UNCHANGED <<total_steps, start, all_steps, batch_steps, batches, calls>>
    /\ UNCHANGED <<reply, http, cleaned, result, attempts, suffix_i>>
    /\ UNCHANGED uploadVars

NextCount == CountCall

SpecCount == InitCount /\ [][NextCount]_vars

(***************************************************************************)
(* Properties of one call of _get_total_steps (SpecCount).                 *)
(***************************************************************************)
\* The places of the digits of a text.
DigitPlaces(s) == {i \in 1..Len(s) : s[i] \in Digits}

\* The first maximal run of digits of a text that has a digit: from the
\* first digit to the last place before the first symbol after it that is
\* no digit.
FirstRun(s) ==
    LET d == CHOOSE i \in DigitPlaces(s) : \A j \in DigitPlaces(s) : i <= j
        e == CHOOSE i \in d..Len(s) : /\ \A j \in d..i : s[j] \in Digits
                                      /\ i = Len(s) \/ s[i + 1] \notin Digits
    IN  SubSeq(s, d, e)

\* The number a run of digits writes, most significant digit first.
RECURSIVE Decimal(_, _)
Decimal(ds, sofar) ==
    IF ds = <<>> THEN sofar
    ELSE Decimal(Tail(ds), 10 * sofar + (CHOOSE n \in 0..9 : DigitSyms[n + 1] = Head(ds)))

\* C11: the count is none when the client returned no text or the text
\* has no digit; otherwise it is the integer written by the first maximal
\* run of digits of the text, whatever stands before and after it.
C11_FirstDigitRun ==
    pc = "counted" =>
        IF response.t = "none" \/ DigitPlaces(response.v) = {}
        THEN count = NoneVal
        ELSE count = IntVal(Decimal(FirstRun(response.v), 0))

\* A text with prose, a run of two digits, a blank and another digit gave
\* the number of the first run.
C11_Witness ==
    /\ pc = "counted"
    /\ response = StrVal(<<"x", "1", "3", WS>>)
    /\ count = IntVal(13)

\* C12: the count is none or an integer of at least 1.
C12_PositiveOrNone ==
    pc = "counted" => count.t = "none" \/ (count.t = "int" /\ count.v[1] >= 1)

(***************************************************************************)
(* The order of the strategies (SpecBatch).                                *)
(***************************************************************************)
\* The five suffixes in the order of the fallback.
OrderedSuffixes ==
    << <<"]">>,
       <<"}", "]">>,
       <<Q, "}", "]">>,
       <<Q, Q, "}", "]">>,
       <<Q, ":", Q, Q, "}", "]">> >>

\* The suffixes that make a normalized text parse.
Working(c) == {i \in 1..5 : JsonLoads(c \o OrderedSuffixes[i]).ok}

\* What has been attempted when the parser stops after n suffixes.
Tried(n) == <<"normalize", "direct", "primary">> \o [i \in 1..n |-> "suffix"]

\* C13: the strategies run in a fixed order and the first that parses gives
\* the result: the direct parse of the normalized text, then the cut after
\* the last complete object closed by "]", then the five suffixes in their
\* order; a strategy is attempted only when all before it failed, and none
\* is attempted after one has parsed.
C13_FirstSuccessWins ==
    (pc \in {"return", "returned"} /\ response.t = "str") =>
        LET c == Normalize(response.v)
            first == CHOOSE i \in Working(c) : \A j \in Working(c) : i <= j
        IN  IF JsonLoads(c).ok
            THEN result = JsonLoads(c).val /\ attempts = <<"normalize", "direct">>
            ELSE IF LastComplete(c) # <<>> /\ JsonLoads(Fixed(c)).ok
            THEN result = JsonLoads(Fixed(c)).val /\ attempts = Tried(0)
            ELSE IF Working(c) # {}
            THEN /\ result = JsonLoads(c \o OrderedSuffixes[first]).val
                 /\ attempts = Tried(first)
            ELSE result = NoneVal /\ attempts = Tried(5)

\* A text that neither parses nor holds a complete object was closed by
\* the second suffix, after the first had failed.
C13_Witness ==
    /\ pc = "returned"
    /\ attempts = Tried(2)
    /\ result.t = "arr"
    /\ LastComplete(cleaned) = <<>>

(***************************************************************************)
(* The requests of a run (Spec).                                           *)
(***************************************************************************)
\* The least number of windows of 4 that cover 1..n.
CeilQuarter(n) == CHOOSE k \in 0..n : 4 * k >= n /\ 4 * (k - 1) < n

\* The run is over: the list was returned or an exception left the call.
Over == pc \in {"done", "raised"}

\* C14: the first request of a run is the count, every other one is a
\* batch, the batches go up window by window and no window is asked
\* twice, and when the run is over it has sent 1 + ceil(total_steps / 4)
\* requests.
C14_CallCount ==
    /\ \A i \in 1..Len(calls) : (i = 1) <=> (calls[i] = <<"count">>)
    /\ \A i \in 2..Len(calls) : \A j \in (i + 1)..Len(calls) : calls[i][2] < calls[j][1]
    /\ Over => Len(calls) = 1 + CeilQuarter(total_steps)

(***************************************************************************)
(* The steps a run returns (Spec).                                         *)
(***************************************************************************)
StepKeys == {<<"step_number">>, <<"title">>, <<"description">>, <<"notes">>}

\* The keys of an object.
KeysOf(x) == {x.v[i].k : i \in 1..Len(x.v)}

\* C15: every object of the accumulated list, and so of the list returned,
\* carries the four keys step_number, title, description and notes: no
\* repair lets an object with missing keys in.
C15_CompleteSteps ==
    \A i \in 1..Len(all_steps) :
        all_steps[i].t = "obj" => StepKeys \subseteq KeysOf(all_steps[i])

\* What a batch added to the list: the length of what it returned when
\* that was kept.
Contribution(b) == IF Truthy(b.steps) /\ Iterable(b.steps) THEN Len(Elements(b.steps)) ELSE 0

\* C16: the accumulated list, and so the list returned, never holds more
\* than total_steps elements, and the batch of a window never adds more
\* than the window holds.
C16_AtMostTotal ==
    /\ Len(all_steps) <= total_steps
    /\ \A i \in 1..Len(batches) :
          Contribution(batches[i]) <= batches[i].end - batches[i].start + 1

(***************************************************************************)
(* SpecUpload: one call of upload_to_mongodb (src/upload_to_mongodb.py).   *)
(***************************************************************************)
MaxDocs == 2

\* The documents of the collection before the call, and those of the file.
OldDocs == <<"old1", "old2", "old3">>
NewDocs == <<"new1", "new2", "new3">>

\* The connection string of the config: with one of the two placeholders
\* of the template, or filled in.
ConnectionStrings == {"placeholder_user", "placeholder_password", "real"}

\* Line 69: the test for a placeholder.
HasPlaceholder(cs) == cs \in {"placeholder_user", "placeholder_password"}

\* The JSON file: absent, no JSON, a JSON value without a length, a list.
Files == {"missing", "invalid", "scalar", "list"}

\* What the user types at line 95.
Answers == {"y", "Y", "n", ""}

\* str.lower on the answers.
Lower(a) == IF a = "Y" THEN "y" ELSE a

InitUpload ==
    /\ pc = "u_check"
    /\ count = NoneVal
    /\ total_steps = 0
    /\ start = 0
    /\ all_steps = <<>>
    /\ batch_steps = NoneVal
    /\ batches = <<>>
    /\ calls = <<>>
    /\ reply = RawReply(<<>>)
    /\ http = Timeout
    /\ response = NoneVal
    /\ cleaned = <<>>
    /\ result = NoneVal
    /\ attempts = <<>>
    /\ suffix_i = 0
    /\ \E n \in 0..MaxDocs : collection = SubSeq(OldDocs, 1, n)
    /\ before = collection
    /\ \E cs \in ConnectionStrings, f \in Files, a \in Answers, n \in 0..MaxDocs :
          /\ f # "list" => n = 0
          /\ env = [connection_string |-> cs, file |-> f,
                    docs |-> SubSeq(NewDocs, 1, n), answer |-> a]
    /\ data = <<>>
    /\ returned = "nothing"

\* Every except clause of lines 131-148 returns False.
ReturnFalse ==
    /\ returned' = "False"
    /\ pc' = "u_returned"

\* Lines 69-71: the connection string is checked.
CheckConnectionString ==
    /\ pc = "u_check"
    /\ IF HasPlaceholder(env.connection_string)
       THEN ReturnFalse
       ELSE pc' = "u_connect" /\ UNCHANGED returned
    /\ UNCHANGED <<collection, before, env, data>>
    /\ UNCHANGED <<runVars, batch_steps, callVars>>

\* Lines 77-85: the client connects and pings, or an exception is caught.
Connect ==
    /\ pc = "u_connect"
    /\ \E outcome \in {"ok", "ConnectionFailure", "OperationFailure"} :
          IF outcome = "ok"
          THEN pc' = "u_load" /\ UNCHANGED returned
          ELSE ReturnFalse
    /\ UNCHANGED <<collection, before, env, data>>
    /\ UNCHANGED <<runVars, batch_steps, callVars>>

\* Lines 88-92: the file is read and the length of its data printed; open,
\* json.load and len raise for a file that is absent, no JSON, or a value
\* without a length.
LoadData ==
    /\ pc = "u_load"
    /\ IF env.file = "list"
       THEN data' = env.docs /\ pc' = "u_ask" /\ UNCHANGED returned
       ELSE ReturnFalse /\ UNCHANGED data
    /\ UNCHANGED <<collection, before, env>>
    /\ UNCHANGED <<runVars, batch_steps, callVars>>

\* Lines 95-98: the user is asked, and delete_many empties the collection
\* on the answer y; delete_many may fail.
AskClear ==
    /\ pc = "u_ask"
    /\ IF Lower(env.answer) = "y"
       THEN \E outcome \in {"ok", "OperationFailure"} :
               IF outcome = "ok"
               THEN collection' = <<>> /\ pc' = "u_insert" /\ UNCHANGED returned
               ELSE ReturnFalse /\ UNCHANGED collection
       ELSE pc' = "u_insert" /\ UNCHANGED <<collection, returned>>
    /\ UNCHANGED <<before, env, data>>
    /\ UNCHANGED <<runVars, batch_steps, callVars>>

\* Lines 103-108: the data is inserted, or there is none and False is
\* returned; insert_many may fail after some documents.
Insert ==
    /\ pc = "u_insert"
    /\ IF Len(data) > 0
       THEN \E k \in 0..Len(data) :
               /\ collection' = collection \o SubSeq(data, 1, k)
               /\ IF k = Len(data)
                  THEN pc' = "u_stats" /\ UNCHANGED returned
                  ELSE ReturnFalse
       ELSE ReturnFalse /\ UNCHANGED collection
    /\ UNCHANGED <<before, env, data>>
    /\ UNCHANGED <<runVars, batch_steps, callVars>>

\* Lines 110-129: the index and the statistics; count_documents may fail.
IndexAndStats ==
    /\ pc = "u_stats"
    /\ \E outcome \in {"ok", "OperationFailure"} :
          IF outcome = "ok"
          THEN returned' = "True" /\ pc' = "u_returned"
          ELSE ReturnFalse
    /\ UNCHANGED <<collection, before, env, data>>
    /\ UNCHANGED <<runVars, batch_steps, callVars>>

NextUpload ==
    \/ CheckConnectionString
    \/ Connect
    \/ LoadData
    \/ AskClear
    \/ Insert
    \/ IndexAndStats

SpecUpload == InitUpload /\ [][NextUpload]_vars

\* The call failed for one of the reasons of the claim: a connection
\* string with a placeholder, a connection that failed (the file was never
\* read), a file that could not be read, a file with an empty list.
FailedAsListed ==
    /\ returned = "False"
    /\ \/ HasPlaceholder(env.connection_string)
       \/ data # env.docs
       \/ env.file # "list"
       \/ env.docs = <<>>

\* C17: when upload_to_mongodb has returned False for a wrong connection
\* string, a connection failure, an unreadable file or an empty list, the
\* collection holds the documents it held before the call.
C17_FalseLeavesCollection == FailedAsListed => collection = before


=============================================================================
